---- MODULE Spec2Model ----
(***************************************************************************)
(* Schema analysis and query suggestion of query_db_direct.py:             *)
(* DirectDBQuery.analyze_database_schema and the helpers it calls.         *)
(* Text is modelled by TLA+ strings; "x in s", startswith, endswith,       *)
(* upper() and lower() are computed character by character.                *)
(***************************************************************************)
EXTENDS Integers, Sequences, FiniteSets, TLC

VARIABLES db, pc, tables, idx, table, suggestions, analysis, potential_relationships,
          all_results, rpc, batch_no, output, col_widths, rendered

\* the state of analyze_database_schema
analysis_vars ==
  <<db, pc, tables, idx, table, suggestions, analysis, potential_relationships>>

\* the state of _format_table_results
render_vars == <<all_results, rpc, batch_no, output, col_widths, rendered>>

vars == <<analysis_vars, render_vars>>

(***************************************************************************)
(* Bounds of the model.                                                    *)
(***************************************************************************)
MaxTables == 3
MaxCols == 4

(***************************************************************************)
(* Limits written in the program.                                          *)
(***************************************************************************)
NumericLimit == 3
TextLimit == 2
LargestLimit == 3
RelationshipLimit == 3

(***************************************************************************)
(* Python string primitives.                                               *)
(***************************************************************************)
Min(a, b) == IF a < b THEN a ELSE b

\* sub in s
Contains(s, sub) ==
  \E i \in 1..(Len(s) - Len(sub) + 1) : SubSeq(s, i, i + Len(sub) - 1) = sub

\* s.startswith(p)
StartsWith(s, p) == Len(p) <= Len(s) /\ SubSeq(s, 1, Len(p)) = p

\* s.endswith(p)
EndsWith(s, p) == Len(p) <= Len(s) /\ SubSeq(s, Len(s) - Len(p) + 1, Len(s)) = p

\* the letters str.lower() changes, and what it changes them to
LowerOf ==
  ("A" :> "a") @@ ("B" :> "b") @@ ("C" :> "c") @@ ("D" :> "d") @@ ("E" :> "e") @@
  ("F" :> "f") @@ ("G" :> "g") @@ ("H" :> "h") @@ ("I" :> "i") @@ ("J" :> "j") @@
  ("K" :> "k") @@ ("L" :> "l") @@ ("M" :> "m") @@ ("N" :> "n") @@ ("O" :> "o") @@
  ("P" :> "p") @@ ("Q" :> "q") @@ ("R" :> "r") @@ ("S" :> "s") @@ ("T" :> "t") @@
  ("U" :> "u") @@ ("V" :> "v") @@ ("W" :> "w") @@ ("X" :> "x") @@ ("Y" :> "y") @@
  ("Z" :> "z")

\* the letters str.upper() changes, and what it changes them to
UpperOf ==
  ("a" :> "A") @@ ("b" :> "B") @@ ("c" :> "C") @@ ("d" :> "D") @@ ("e" :> "E") @@
  ("f" :> "F") @@ ("g" :> "G") @@ ("h" :> "H") @@ ("i" :> "I") @@ ("j" :> "J") @@
  ("k" :> "K") @@ ("l" :> "L") @@ ("m" :> "M") @@ ("n" :> "N") @@ ("o" :> "O") @@
  ("p" :> "P") @@ ("q" :> "Q") @@ ("r" :> "R") @@ ("s" :> "S") @@ ("t" :> "T") @@
  ("u" :> "U") @@ ("v" :> "V") @@ ("w" :> "W") @@ ("x" :> "X") @@ ("y" :> "Y") @@
  ("z" :> "Z")

MapChar(c, map) == IF c \in DOMAIN map THEN map[c] ELSE c

RECURSIVE MapStr(_, _)
MapStr(s, map) ==
  IF Len(s) = 0 THEN ""
  ELSE MapChar(SubSeq(s, 1, 1), map) \o MapStr(SubSeq(s, 2, Len(s)), map)

\* s.lower()
Lower(s) == MapStr(s, LowerOf)

\* s.upper()
Upper(s) == MapStr(s, UpperOf)

\* any(keyword in s for keyword in keywords)
AnyKeywordIn(keywords, s) == \E k \in keywords : Contains(s, k)

\* seq[:n]
Take(seq, n) == SubSeq(seq, 1, Min(n, Len(seq)))

\* x in seq, for a list
InList(x, seq) == \E k \in 1..Len(seq) : seq[k] = x

\* sep.join(seq)
RECURSIVE Join(_, _)
Join(sep, seq) ==
  IF Len(seq) = 0 THEN ""
  ELSE IF Len(seq) = 1 THEN seq[1]
  ELSE seq[1] \o sep \o Join(sep, Tail(seq))

Pad3(n) == IF n < 10 THEN "00" \o ToString(n)
           ELSE IF n < 100 THEN "0" \o ToString(n)
           ELSE ToString(n)

\* f"{n:,}" for n >= 0
RECURSIVE FormatThousands(_)
FormatThousands(n) ==
  IF n < 1000 THEN ToString(n)
  ELSE FormatThousands(n \div 1000) \o "," \o Pad3(n % 1000)

(***************************************************************************)
(* _analyze_table_schema: classification of one table's columns.           *)
(***************************************************************************)
TemporalKeywords == {"created", "updated", "modified", "time", "date"}
DisqualifyingKeywords == {"score", "label", "amount", "value"}

\* variant: INT is not taken for a numeric type
IsNumericTypeNoInt(col_type) ==
  \/ Contains(col_type, "REAL")
  \/ Contains(col_type, "FLOAT")
  \/ Contains(col_type, "NUMERIC")

IsNumericType(col_type) ==
  \/ Contains(col_type, "INT")
  \/ Contains(col_type, "REAL")
  \/ Contains(col_type, "FLOAT")
  \/ Contains(col_type, "NUMERIC")

IsTextType(col_type) ==
  \/ Contains(col_type, "TEXT")
  \/ Contains(col_type, "CHAR")
  \/ Contains(col_type, "VARCHAR")

IsDateType(col_type) ==
  \/ Contains(col_type, "DATE")
  \/ Contains(col_type, "TIME")

\* variant: the disqualifying keywords are not looked at
NameIsTemporalNoDisqualifier(col_name) ==
  AnyKeywordIn(TemporalKeywords, Lower(col_name))

\* the timestamp-pattern test on a column name
NameIsTemporal(col_name) ==
  /\ AnyKeywordIn(TemporalKeywords, Lower(col_name))
  /\ ~AnyKeywordIn(DisqualifyingKeywords, Lower(col_name))

EmptyTableAnalysis(schema) ==
  [row_count |-> schema.row_count,
   column_types |-> <<>>,
   date_columns |-> <<>>,
   numeric_columns |-> <<>>,
   text_columns |-> <<>>,
   primary_keys |-> <<>>,
   has_timestamps |-> FALSE,
   likely_relationships |-> <<>>]

\* variant: the column is appended without looking for it first
AddDateColumnUnchecked(date_columns, col_name) == Append(date_columns, col_name)

\* if col_name not in analysis['date_columns']: append it
AddDateColumn(date_columns, col_name) ==
  IF InList(col_name, date_columns) THEN date_columns
  ELSE Append(date_columns, col_name)

\* one iteration of the loop over schema['columns']
AnalyzeColumn(a, col) ==
  LET col_name == col.name
      col_type == Upper(col.type)
      a1 == [a EXCEPT !.column_types = Append(@, [name |-> col_name, type |-> col_type])]
      a2 == IF col.primary_key
              THEN [a1 EXCEPT !.primary_keys = Append(@, col_name)]
              ELSE a1
      a3 == IF IsNumericType(col_type)
              THEN [a2 EXCEPT !.numeric_columns = Append(@, col_name)]
            ELSE IF IsTextType(col_type)
              THEN [a2 EXCEPT !.text_columns = Append(@, col_name)]
            ELSE IF IsDateType(col_type)
              THEN [a2 EXCEPT !.date_columns = Append(@, col_name)]
            ELSE a2
  IN  IF NameIsTemporal(col_name)
        THEN [a3 EXCEPT !.has_timestamps = TRUE,
                        !.date_columns = AddDateColumn(@, col_name)]
        ELSE a3

RECURSIVE AnalyzeColumns(_, _)
AnalyzeColumns(a, columns) ==
  IF Len(columns) = 0 THEN a
  ELSE AnalyzeColumns(AnalyzeColumn(a, Head(columns)), Tail(columns))

AnalyzeTableSchema(table_name, schema) ==
  AnalyzeColumns(EmptyTableAnalysis(schema), schema.columns)

(***************************************************************************)
(* _generate_table_queries: the candidates suggested for one table.        *)
(***************************************************************************)
SampleAndCount(table_name) ==
  << [name |-> "sample_" \o table_name,
      description |-> "Sample data from " \o table_name,
      sql |-> "SELECT * FROM " \o table_name \o " LIMIT 5"],
     [name |-> "count_" \o table_name,
      description |-> "Total rows in " \o table_name,
      sql |-> "SELECT COUNT(*) as total_rows FROM " \o table_name] >>

\* variant: the row count is tested with >= instead of >
BasicQueriesAnyCount(table_name, table_analysis) ==
  IF table_analysis.row_count >= 0 THEN SampleAndCount(table_name) ELSE <<>>

BasicQueries(table_name, table_analysis) ==
  IF table_analysis.row_count > 0 THEN SampleAndCount(table_name) ELSE <<>>

\* variant: the last date column is taken
DateKeyLast(date_columns) == date_columns[Len(date_columns)]

\* date_col = table_analysis['date_columns'][0]
DateKey(date_columns) == date_columns[1]

DateQueries(table_name, table_analysis) ==
  IF Len(table_analysis.date_columns) > 0
    THEN LET date_col == DateKey(table_analysis.date_columns)
         IN  << [name |-> "recent_" \o table_name,
                 description |-> "Recent records from " \o table_name,
                 sql |-> "SELECT * FROM " \o table_name \o " ORDER BY " \o date_col
                         \o " DESC LIMIT 10"],
                [name |-> "date_range_" \o table_name,
                 description |-> "Date range in " \o table_name,
                 sql |-> "SELECT MIN(" \o date_col \o ") as earliest, MAX(" \o date_col
                         \o ") as latest FROM " \o table_name] >>
    ELSE <<>>

StatsQuery(table_name, num_col) ==
  [name |-> "stats_" \o table_name \o "_" \o num_col,
   description |-> "Statistics for " \o num_col \o " in " \o table_name,
   sql |-> "SELECT AVG(" \o num_col \o ") as avg_" \o num_col
           \o ", MIN(" \o num_col \o ") as min_" \o num_col
           \o ", MAX(" \o num_col \o ") as max_" \o num_col
           \o " FROM " \o table_name]

\* variant: the limit is applied after the ID columns are skipped
StatsScannedAfterSkip(numeric_columns) ==
  Take(SelectSeq(numeric_columns, LAMBDA c : ~Contains(Lower(c), "id")), NumericLimit)

\* the numeric columns the statistics loop visits
StatsScanned(numeric_columns) == Take(numeric_columns, NumericLimit)

RECURSIVE StatsOver(_, _)
StatsOver(table_name, cols) ==
  IF Len(cols) = 0 THEN <<>>
  ELSE (IF ~Contains(Lower(Head(cols)), "id")
          THEN <<StatsQuery(table_name, Head(cols))>>
          ELSE <<>>) \o StatsOver(table_name, Tail(cols))

StatsQueries(table_name, table_analysis) ==
  StatsOver(table_name, StatsScanned(table_analysis.numeric_columns))

PopularKeywords == {"title", "name", "description", "summary"}

PopularQuery(table_name, text_col) ==
  [name |-> "popular_" \o text_col \o "_" \o table_name,
   description |-> "Most common values in " \o text_col,
   sql |-> "SELECT " \o text_col \o ", COUNT(*) as frequency FROM " \o table_name
           \o " GROUP BY " \o text_col \o " ORDER BY frequency DESC LIMIT 10"]

RECURSIVE PopularOver(_, _)
PopularOver(table_name, cols) ==
  IF Len(cols) = 0 THEN <<>>
  ELSE (IF AnyKeywordIn(PopularKeywords, Lower(Head(cols)))
          THEN <<PopularQuery(table_name, Head(cols))>>
          ELSE <<>>) \o PopularOver(table_name, Tail(cols))

PopularQueries(table_name, table_analysis) ==
  PopularOver(table_name, Take(table_analysis.text_columns, TextLimit))

GenerateTableQueries(table_name, table_analysis) ==
  BasicQueries(table_name, table_analysis)
    \o DateQueries(table_name, table_analysis)
    \o StatsQueries(table_name, table_analysis)
    \o PopularQueries(table_name, table_analysis)

(***************************************************************************)
(* _generate_database_insights.  tables_analysis is the dict                *)
(* analysis['tables'] in insertion order: a list of [name, info] items.     *)
(***************************************************************************)
RECURSIVE SumRows(_)
SumRows(items) ==
  IF Len(items) = 0 THEN 0
  ELSE Head(items).info.row_count + SumRows(Tail(items))

\* sorted(..., key=row count, reverse=True): stable, equal counts keep their order
RECURSIVE InsertByRows(_, _)
InsertByRows(sorted, x) ==
  IF Len(sorted) = 0 THEN <<x>>
  ELSE IF Head(sorted).count >= x.count
    THEN <<Head(sorted)>> \o InsertByRows(Tail(sorted), x)
    ELSE <<x>> \o sorted

RECURSIVE SortByRows(_)
SortByRows(pairs) ==
  IF Len(pairs) = 0 THEN <<>>
  ELSE InsertByRows(SortByRows(SubSeq(pairs, 1, Len(pairs) - 1)), pairs[Len(pairs)])

LargestTables(tables_analysis) ==
  Take(SortByRows([k \in 1..Len(tables_analysis) |->
                    [name |-> tables_analysis[k].name,
                     count |-> tables_analysis[k].info.row_count]]),
       LargestLimit)

FormatLargest(p) == p.name \o " (" \o FormatThousands(p.count) \o " rows)"

SummaryInsight(total_tables, total_rows) ==
  "Database contains " \o ToString(total_tables) \o " tables with "
    \o FormatThousands(total_rows) \o " total rows"

LargestInsights(tables_analysis) ==
  LET largest_tables == LargestTables(tables_analysis)
      positive == SelectSeq(largest_tables, LAMBDA p : p.count > 0)
  IN  IF Len(largest_tables) > 0 /\ largest_tables[1].count > 0
        THEN << "Largest tables: "
                  \o Join(", ", [k \in 1..Len(positive) |-> FormatLargest(positive[k])]) >>
        ELSE <<>>

\* variant: the column name is looked for in the table name
IsForeignKeyPatternReversed(table_name, col_name, other_table) ==
  /\ other_table # table_name
  /\ \/ StartsWith(Lower(other_table), Lower(col_name))
     \/ EndsWith(Lower(other_table), Lower(col_name))
     \/ Contains(Lower(other_table), Lower(col_name))

\* variant: a table is compared with itself too
IsForeignKeyPatternAnyTable(table_name, col_name, other_table) ==
  \/ StartsWith(Lower(col_name), Lower(other_table))
  \/ EndsWith(Lower(col_name), Lower(other_table))
  \/ Contains(Lower(col_name), Lower(other_table))

\* the foreign key pattern test of the innermost loop
IsForeignKeyPattern(table_name, col_name, other_table) ==
  /\ other_table # table_name
  /\ \/ StartsWith(Lower(col_name), Lower(other_table))
     \/ EndsWith(Lower(col_name), Lower(other_table))
     \/ Contains(Lower(col_name), Lower(other_table))

FormatRelationship(table_name, col_name, other_table) ==
  table_name \o "." \o col_name \o " -> " \o other_table

RECURSIVE RelationshipsOfColumn(_, _, _)
RelationshipsOfColumn(table_name, col_name, others) ==
  IF Len(others) = 0 THEN <<>>
  ELSE (IF IsForeignKeyPattern(table_name, col_name, Head(others))
          THEN <<FormatRelationship(table_name, col_name, Head(others))>>
          ELSE <<>>) \o RelationshipsOfColumn(table_name, col_name, Tail(others))

RECURSIVE RelationshipsOfTable(_, _, _)
RelationshipsOfTable(table_name, column_types, table_names) ==
  IF Len(column_types) = 0 THEN <<>>
  ELSE RelationshipsOfColumn(table_name, Head(column_types).name, table_names)
         \o RelationshipsOfTable(table_name, Tail(column_types), table_names)

RECURSIVE RelationshipsOfTables(_, _)
RelationshipsOfTables(items, table_names) ==
  IF Len(items) = 0 THEN <<>>
  ELSE RelationshipsOfTable(Head(items).name, Head(items).info.column_types, table_names)
         \o RelationshipsOfTables(Tail(items), table_names)

PotentialRelationships(tables_analysis) ==
  RelationshipsOfTables(tables_analysis,
                        [k \in 1..Len(tables_analysis) |-> tables_analysis[k].name])

RelationshipInsights(relationships) ==
  IF Len(relationships) > 0
    THEN << "Potential relationships: "
              \o Join(", ", Take(relationships, RelationshipLimit)) >>
    ELSE <<>>

GenerateDatabaseInsights(tables_analysis) ==
  << SummaryInsight(Len(tables_analysis), SumRows(tables_analysis)) >>
    \o LargestInsights(tables_analysis)
    \o RelationshipInsights(PotentialRelationships(tables_analysis))

(***************************************************************************)
(* The database.  db lists the stored tables in name order, as             *)
(* get_table_names reads them (ORDER BY name).  A table whose introspection *)
(* queries fail is marked broken.  not_null and the index list are left     *)
(* out: the analysis never reads them.                                      *)
(***************************************************************************)
Column(name, type, primary_key) ==
  [name |-> name, type |-> type, primary_key |-> primary_key]

AllTableNames == <<"posts", "t", "users", "visits">>

TableNames == Take(AllTableNames, MaxTables)

RowCounts == {0, 5, 1200}

\* columns of the tables of a database of several tables
LinkColumns ==
  { Column("user_id", "INTEGER", FALSE),
    Column("users_ref", "INTEGER", FALSE),
    Column("created_at", "TEXT", FALSE) }

\* columns of a database of one table
ColumnPool ==
  { Column("id", "INTEGER", TRUE),
    Column("RefID", "bigint", FALSE),
    Column("created_at", "TEXT", FALSE),
    Column("score", "REAL", FALSE),
    Column("time_score", "FLOAT", FALSE),
    Column("Updated", "timestamp", FALSE),
    Column("title", "VARCHAR(80)", FALSE),
    Column("value_date", "DATE", FALSE),
    Column("payload", "BLOB", FALSE) }

BrokenTable(name) ==
  [name |-> name, broken |-> TRUE, columns |-> <<>>, row_count |-> 0]

StoredTable(name, columns, row_count) ==
  [name |-> name, broken |-> FALSE, columns |-> columns, row_count |-> row_count]

\* column lists of exactly n columns of the pool, no column twice
RECURSIVE SchemasOfLen(_, _)
SchemasOfLen(pool, n) ==
  IF n = 0 THEN {<<>>}
  ELSE UNION { { s \o <<c>> : c \in pool \ { s[k] : k \in 1..Len(s) } } :
                 s \in SchemasOfLen(pool, n - 1) }

\* column lists of 1..n columns of the pool (a table has at least one column)
Schemas(pool, n) == UNION { SchemasOfLen(pool, k) : k \in 1..n }

\* a table name is absent from the database, broken, or stored with one column
TableChoices(name) ==
  {<<>>} \cup {<<BrokenTable(name)>>}
    \cup { <<StoredTable(name, <<c>>, r)>> : c \in LinkColumns, r \in RowCounts }

RECURSIVE Databases(_)
Databases(n) ==
  IF n = 0 THEN {<<>>}
  ELSE { d \o c : d \in Databases(n - 1), c \in TableChoices(TableNames[n]) }

SingleTableDatabases ==
  {<<>>} \cup {<<BrokenTable("t")>>}
    \cup { <<StoredTable("t", s, r)>> : s \in Schemas(ColumnPool, MaxCols), r \in {0, 5} }

\* get_table_names
GetTableNames == [k \in 1..Len(db) |-> db[k].name]

\* get_table_schema
GetTableSchema(table_name) ==
  LET t == CHOOSE x \in {db[k] : k \in 1..Len(db)} : x.name = table_name
  IN  IF t.broken
        THEN [error |-> "Error getting schema for " \o table_name]
        ELSE [table |-> table_name, columns |-> t.columns, row_count |-> t.row_count]

HasError(schema) == "error" \in DOMAIN schema

(***************************************************************************)
(* analyze_database_schema, step by step.                                   *)
(***************************************************************************)
DatabasePath == "/data/database.db"

EmptyAnalysis ==
  [database_path |-> DatabasePath,
   tables |-> <<>>,
   suggested_queries |-> <<>>,
   insights |-> <<>>]

Start ==
  /\ pc = "start"
  /\ tables = <<>>
  /\ idx = 0
  /\ table = ""
  /\ suggestions = <<>>
  /\ analysis = EmptyAnalysis
  /\ potential_relationships = <<>>

\* no rendering is under way
RenderIdle ==
  /\ all_results = <<>>
  /\ rpc = "idle"
  /\ batch_no = 0
  /\ output = <<>>
  /\ col_widths = <<>>
  /\ rendered = ""

Init == db \in Databases(Len(TableNames)) /\ Start /\ RenderIdle

InitTable == db \in SingleTableDatabases /\ Start /\ RenderIdle

\* tables = self.get_table_names(), some table listed
AnalyzeBegin ==
  /\ pc = "start"
  /\ Len(GetTableNames) > 0
  /\ tables' = GetTableNames
  /\ idx' = 1
  /\ pc' = "loop"
  /\ UNCHANGED <<db, table, suggestions, analysis, potential_relationships>>
  /\ UNCHANGED render_vars

\* variant: no early return, the insights are generated for no tables
ReturnEmptyWithInsights ==
  /\ pc = "start"
  /\ Len(GetTableNames) = 0
  /\ tables' = GetTableNames
  /\ analysis' = [analysis EXCEPT !.insights = GenerateDatabaseInsights(analysis.tables)]
  /\ pc' = "done"
  /\ UNCHANGED <<db, idx, table, suggestions, potential_relationships>>
  /\ UNCHANGED render_vars

\* if not tables: return analysis
ReturnEmpty ==
  /\ pc = "start"
  /\ Len(GetTableNames) = 0
  /\ tables' = GetTableNames
  /\ pc' = "done"
  /\ UNCHANGED <<db, idx, table, suggestions, analysis, potential_relationships>>
  /\ UNCHANGED render_vars

\* variant: the loop is left at the first failing table
SkipTableBreak ==
  /\ pc = "loop"
  /\ idx <= Len(tables)
  /\ HasError(GetTableSchema(tables[idx]))
  /\ table' = tables[idx]
  /\ idx' = Len(tables) + 1
  /\ UNCHANGED <<db, pc, tables, suggestions, analysis, potential_relationships>>
  /\ UNCHANGED render_vars

\* a loop iteration that ends at "if 'error' in schema: continue"
SkipTable ==
  /\ pc = "loop"
  /\ idx <= Len(tables)
  /\ HasError(GetTableSchema(tables[idx]))
  /\ table' = tables[idx]
  /\ idx' = idx + 1
  /\ UNCHANGED <<db, pc, tables, suggestions, analysis, potential_relationships>>
  /\ UNCHANGED render_vars

\* a full loop iteration
AnalyzeTable ==
  /\ pc = "loop"
  /\ idx <= Len(tables)
  /\ LET schema == GetTableSchema(tables[idx])
     IN  /\ ~HasError(schema)
         /\ LET table_analysis == AnalyzeTableSchema(tables[idx], schema)
                found == GenerateTableQueries(tables[idx], table_analysis)
            IN  /\ suggestions' = found
                /\ analysis' = [analysis EXCEPT
                      !.tables = Append(@, [name |-> tables[idx], info |-> table_analysis]),
                      !.suggested_queries = @ \o found]
  /\ table' = tables[idx]
  /\ idx' = idx + 1
  /\ UNCHANGED <<db, pc, tables, potential_relationships>>
  /\ UNCHANGED render_vars

\* analysis['insights'] = self._generate_database_insights(...); return analysis
GenerateInsights ==
  /\ pc = "loop"
  /\ idx > Len(tables)
  /\ analysis' = [analysis EXCEPT !.insights = GenerateDatabaseInsights(analysis.tables)]
  /\ potential_relationships' = PotentialRelationships(analysis.tables)
  /\ pc' = "done"
  /\ UNCHANGED <<db, tables, idx, table, suggestions>>
  /\ UNCHANGED render_vars

Next ==
  \/ AnalyzeBegin
  \/ ReturnEmpty
  \/ SkipTable
  \/ AnalyzeTable
  \/ GenerateInsights

Spec == Init /\ [][Next]_vars

SpecTable == InitTable /\ [][Next]_vars

(***************************************************************************)
(* _format_table_results: the text rendering of a list of result batches.  *)
(* A row is a dict in key order, a list of [key, value] items; a value is  *)
(* an integer, a text or None, and str() makes its text.                   *)
(***************************************************************************)
MaxBatches == 2
MaxExtraRows == 1

SampleRows == 20
MaxWidth == 30
RuleLength == 60

Max(a, b) == IF a > b THEN a ELSE b

\* c * n
RECURSIVE Repeat(_, _)
Repeat(c, n) == IF n <= 0 THEN "" ELSE c \o Repeat(c, n - 1)

\* s.ljust(w)
LJust(s, w) == s \o Repeat(" ", w - Len(s))

IntValue(n) == [kind |-> "int", num |-> n, text |-> ""]
TextValue(t) == [kind |-> "text", num |-> 0, text |-> t]
NoneValue == [kind |-> "none", num |-> 0, text |-> ""]

\* str(value)
PyStr(v) ==
  IF v.kind = "int" THEN ToString(v.num)
  ELSE IF v.kind = "none" THEN "None"
  ELSE v.text

\* list(row.keys())
RowKeys(row) == [k \in 1..Len(row) |-> row[k].key]

\* row.get(col, '')
RowGet(row, col) ==
  IF \E k \in 1..Len(row) : row[k].key = col
    THEN (CHOOSE it \in { row[k] : k \in 1..Len(row) } : it.key = col).value
    ELSE TextValue("")

\* max(len(str(row.get(col, ''))) for row in rows), rows not empty
RECURSIVE LongestValue(_, _)
LongestValue(col, rows) ==
  IF Len(rows) = 1 THEN Len(PyStr(RowGet(rows[1], col)))
  ELSE Max(Len(PyStr(RowGet(rows[1], col))), LongestValue(col, Tail(rows)))

\* col_widths[col]
ColumnWidth(col, results) ==
  Min(Max(Len(col), LongestValue(col, Take(results, SampleRows))), MaxWidth)

\* col_widths, in the order of columns
ColWidths(columns, results) ==
  [k \in 1..Len(columns) |-> ColumnWidth(columns[k], results)]

HeaderLine(columns, widths) ==
  Join(" | ", [k \in 1..Len(columns) |-> LJust(columns[k], widths[k])])

\* variant: the value is padded, not cut
CellPadded(v, w) == LJust(PyStr(v), w)

\* str(row.get(col, ''))[:col_widths[col]].ljust(col_widths[col])
Cell(v, w) == LJust(Take(PyStr(v), w), w)

RowLine(row, columns, widths) ==
  Join(" | ", [k \in 1..Len(columns) |-> Cell(RowGet(row, columns[k]), widths[k])])

RuleElement == "\n" \o Repeat("=", RuleLength) \o "\n"

RowCountElement(n) == "\nRows returned: " \o ToString(n)

\* variant: a rule before the first batch too
NeedsRuleAlways(i) == i >= 0

\* if i > 0, i the batch's index from 0
NeedsRule(i) == i > 0

Separator(i) == IF NeedsRule(i) THEN <<RuleElement>> ELSE <<>>

\* the elements a batch of rows adds to output
BatchElements(results) ==
  LET columns == RowKeys(results[1])
      widths == ColWidths(columns, results)
      header == HeaderLine(columns, widths)
  IN  <<header, Repeat("-", Len(header))>>
        \o [k \in 1..Len(results) |-> RowLine(results[k], columns, widths)]
        \o <<RowCountElement(Len(results))>>

(***************************************************************************)
(* The batches rendered: lists of up to MaxBatches small batches, and      *)
(* single batches of up to SampleRows + MaxExtraRows rows that hold one    *)
(* value everywhere but in one row.                                        *)
(***************************************************************************)
Item(key, value) == [key |-> key, value |-> value]

LongHeader == "a_column_name_longer_than_thirty_chars"

LongText == "a text of more than thirty characters"

CellValues ==
  { TextValue(""), TextValue("x"), TextValue("hello!"), TextValue(LongText),
    IntValue(12345), NoneValue }

HeaderChoices == { <<"a">>, <<"a", "b">>, <<LongHeader>> }

RowNumbers == {1, 2, SampleRows} \cup (SampleRows + 1)..(SampleRows + MaxExtraRows)

\* row k of a batch: the first column holds v, a second column the row's number
MakeRow(columns, k, v) ==
  [c \in 1..Len(columns) |-> Item(columns[c], IF c = 1 THEN v ELSE IntValue(k))]

\* n rows holding f, but v in row p
MakeBatch(columns, n, f, p, v) ==
  [k \in 1..n |-> MakeRow(columns, k, IF k = p THEN v ELSE f)]

WideBatches ==
  UNION { { MakeBatch(columns, n, f, p, v) :
              columns \in HeaderChoices, f \in CellValues, v \in CellValues,
              p \in {1, Min(n, SampleRows), n} } : n \in RowNumbers }

SmallBatches ==
  { <<>>,
    << <<Item("a", TextValue("x")), Item("b", TextValue("1"))>> >>,
    << <<Item("a", TextValue("x")), Item("b", TextValue("1"))>>,
       <<Item("a", TextValue("hello!")), Item("b", IntValue(22))>> >>,
    << <<Item("n", NoneValue)>> >> }

RECURSIVE BatchLists(_)
BatchLists(n) ==
  IF n = 0 THEN {<<>>}
  ELSE BatchLists(n - 1)
         \cup { l \o <<b>> : l \in { x \in BatchLists(n - 1) : Len(x) = n - 1 },
                             b \in SmallBatches }

RenderInputs == BatchLists(MaxBatches) \cup { <<b>> : b \in WideBatches }

InitRender ==
  /\ db = <<>>
  /\ Start
  /\ all_results \in RenderInputs
  /\ rpc = "render"
  /\ batch_no = 0
  /\ output = <<>>
  /\ col_widths = <<>>
  /\ rendered = ""

\* a loop iteration over a batch without rows: "No results returned"; continue
RenderEmptyBatch ==
  /\ rpc = "render"
  /\ batch_no < Len(all_results)
  /\ Len(all_results[batch_no + 1]) = 0
  /\ output' = output \o Separator(batch_no) \o <<"No results returned">>
  /\ batch_no' = batch_no + 1
  /\ UNCHANGED <<all_results, rpc, col_widths, rendered>>
  /\ UNCHANGED analysis_vars

\* a loop iteration over a batch of rows
RenderBatch ==
  /\ rpc = "render"
  /\ batch_no < Len(all_results)
  /\ Len(all_results[batch_no + 1]) > 0
  /\ LET results == all_results[batch_no + 1]
     IN  /\ col_widths' = ColWidths(RowKeys(results[1]), results)
         /\ output' = output \o Separator(batch_no) \o BatchElements(results)
  /\ batch_no' = batch_no + 1
  /\ UNCHANGED <<all_results, rpc, rendered>>
  /\ UNCHANGED analysis_vars

\* return "\n".join(output)
RenderReturn ==
  /\ rpc = "render"
  /\ batch_no = Len(all_results)
  /\ rendered' = Join("\n", output)
  /\ rpc' = "done"
  /\ UNCHANGED <<all_results, batch_no, output, col_widths>>
  /\ UNCHANGED analysis_vars

NextRender ==
  \/ RenderEmptyBatch
  \/ RenderBatch
  \/ RenderReturn

SpecRender == InitRender /\ [][NextRender]_vars

(***************************************************************************)
(* Vocabulary of the properties.                                            *)
(***************************************************************************)
Elems(seq) == { seq[k] : k \in 1..Len(seq) }

AnalyzedNames == { analysis.tables[k].name : k \in 1..Len(analysis.tables) }

InfoOf(name) == (CHOOSE it \in Elems(analysis.tables) : it.name = name).info

StoredNamed(name) == CHOOSE x \in Elems(db) : x.name = name

NamesOf(queries) == [k \in 1..Len(queries) |-> queries[k].name]

\* the loop has just analyzed `table`: suggestions are its candidates
JustAnalyzed ==
  /\ Len(analysis.tables) > 0
  /\ analysis.tables[Len(analysis.tables)].name = table

LastInfo == analysis.tables[Len(analysis.tables)].info

Returned == pc = "done"

(***************************************************************************)
(* C1 (as written): with tables users and posts, and a column user_id in   *)
(* posts, relationship inference emits the edge "posts.user_id -> users".  *)
(***************************************************************************)
C1_UsersAndPosts == Returned /\ {"users", "posts"} \subseteq AnalyzedNames

C1_Original ==
  (C1_UsersAndPosts /\ \E c \in Elems(InfoOf("posts").column_types) : c.name = "user_id")
    => InList("posts.user_id -> users", potential_relationships)

(***************************************************************************)
(* C1 (amended): with tables users and posts, the edge                     *)
(* "posts.<column> -> users" is emitted exactly for the columns of posts   *)
(* whose lowercased name contains "users"; user_id gets no such edge.      *)
(***************************************************************************)
C1_Amended ==
  C1_UsersAndPosts =>
    /\ \A c \in Elems(InfoOf("posts").column_types) :
         InList("posts." \o c.name \o " -> users", potential_relationships)
           <=> Contains(Lower(c.name), "users")
    /\ ~InList("posts.user_id -> users", potential_relationships)

C1_Witness ==
  /\ C1_UsersAndPosts
  /\ InList("posts.users_ref -> users", potential_relationships)

(***************************************************************************)
(* C2 (as written): for t(id INTEGER PRIMARY KEY, created_at TEXT,         *)
(* score REAL) with 5 rows, analyze() classifies numeric_columns as        *)
(* ["score"] and date_columns as ["created_at"].                           *)
(***************************************************************************)
C2_Table ==
  StoredTable("t", << Column("id", "INTEGER", TRUE),
                      Column("created_at", "TEXT", FALSE),
                      Column("score", "REAL", FALSE) >>, 5)

C2_Case == Returned /\ db = <<C2_Table>> /\ "t" \in AnalyzedNames

C2_Original ==
  C2_Case => /\ InfoOf("t").numeric_columns = <<"score">>
             /\ InfoOf("t").date_columns = <<"created_at">>

(***************************************************************************)
(* C2 (amended): for that table analyze() classifies numeric_columns as    *)
(* ["id", "score"] and date_columns as ["created_at"].                     *)
(***************************************************************************)
C2_Amended ==
  C2_Case => /\ InfoOf("t").numeric_columns = <<"id", "score">>
             /\ InfoOf("t").date_columns = <<"created_at">>

C2_Witness == C2_Case /\ Len(analysis.suggested_queries) > 0

(***************************************************************************)
(* C3 (as written): the stats candidates of a table are those of the       *)
(* first 3 numeric columns whose name does not contain "id"                *)
(* (case-insensitively): the cap counts qualifying columns only.           *)
(***************************************************************************)
NotIdNamed(c) == ~Contains(Lower(c), "id")

StatsCandidates ==
  SelectSeq(NamesOf(suggestions), LAMBDA n : StartsWith(n, "stats_"))

StatsNamesFor(cols) == [k \in 1..Len(cols) |-> "stats_" \o table \o "_" \o cols[k]]

C3_Original ==
  JustAnalyzed =>
    StatsCandidates
      = StatsNamesFor(Take(SelectSeq(LastInfo.numeric_columns, NotIdNamed), 3))

(***************************************************************************)
(* C3 (amended): the stats candidates of a table are those of the columns, *)
(* among the first 3 numeric columns, whose name does not contain "id"     *)
(* (case-insensitively): the cap counts every numeric column, so an        *)
(* id-named numeric column among the first 3 uses up the cap.              *)
(***************************************************************************)
C3_Amended ==
  JustAnalyzed =>
    StatsCandidates
      = StatsNamesFor(SelectSeq(Take(LastInfo.numeric_columns, 3), NotIdNamed))

C3_Witness ==
  /\ JustAnalyzed
  /\ Len(LastInfo.numeric_columns) > 3
  /\ \E k \in 1..3 : ~NotIdNamed(LastInfo.numeric_columns[k])
  /\ NotIdNamed(LastInfo.numeric_columns[4])
  /\ Len(StatsCandidates) > 0

(***************************************************************************)
(* C4 (as written): in every classification each column name is in at most *)
(* one of numeric_columns, text_columns and date_columns.                  *)
(***************************************************************************)
Occurrences(x, seq) == Cardinality({ k \in 1..Len(seq) : seq[k] = x })

ListsHolding(name, info) ==
  Occurrences(name, info.numeric_columns)
    + Occurrences(name, info.text_columns)
    + Occurrences(name, info.date_columns)

C4_Original ==
  \A it \in Elems(analysis.tables) :
    \A c \in Elems(it.info.column_types) : ListsHolding(c.name, it.info) <= 1

(***************************************************************************)
(* C4 (amended): in every classification each column name is in at most    *)
(* one of numeric_columns and text_columns and at most once in             *)
(* date_columns; a column of date_columns that is also in numeric_columns  *)
(* or text_columns has a temporal keyword and no disqualifying keyword in  *)
(* its name.                                                               *)
(***************************************************************************)
HasTemporalKeyword(name) ==
  \E k \in {"created", "updated", "modified", "time", "date"} : Contains(Lower(name), k)

HasDisqualifier(name) ==
  \E k \in {"score", "label", "amount", "value"} : Contains(Lower(name), k)

C4_Amended ==
  \A it \in Elems(analysis.tables) :
    \A c \in Elems(it.info.column_types) :
      /\ Occurrences(c.name, it.info.numeric_columns)
           + Occurrences(c.name, it.info.text_columns) <= 1
      /\ Occurrences(c.name, it.info.date_columns) <= 1
      /\ ListsHolding(c.name, it.info) > 1
           => HasTemporalKeyword(c.name) /\ ~HasDisqualifier(c.name)

C4_Witness ==
  \E it \in Elems(analysis.tables) :
    /\ \E c \in Elems(it.info.column_types) : ListsHolding(c.name, it.info) = 2
    /\ \E c \in Elems(it.info.column_types) :
         /\ IsDateType(c.type)
         /\ HasTemporalKeyword(c.name)
         /\ Occurrences(c.name, it.info.date_columns) = 1

(***************************************************************************)
(* C5: for a table with row_count = 0 no candidate is named sample_* or    *)
(* count_*; with row_count > 0 the first candidate is sample_<table>, the  *)
(* second count_<table>, and no other candidate has such a name.           *)
(***************************************************************************)
IsBasicName(n) == StartsWith(n, "sample_") \/ StartsWith(n, "count_")

C5_SampleAndCount ==
  JustAnalyzed =>
    IF LastInfo.row_count = 0
      THEN \A n \in Elems(NamesOf(suggestions)) : ~IsBasicName(n)
      ELSE /\ Len(suggestions) >= 2
           /\ suggestions[1].name = "sample_" \o table
           /\ suggestions[2].name = "count_" \o table
           /\ \A k \in 3..Len(suggestions) : ~IsBasicName(suggestions[k].name)

C5_Witness ==
  /\ JustAnalyzed
  /\ LastInfo.row_count = 0
  /\ Len(suggestions) > 0

(***************************************************************************)
(* C6: for a table with a non-empty date_columns exactly one candidate is  *)
(* named recent_<table> and exactly one date_range_<table>, and the SQL of *)
(* both uses the date column that comes first in the table's column order; *)
(* with an empty date_columns no candidate has either name.                *)
(***************************************************************************)
\* the first column of the stored table, in column order, that is a date column
FirstDateColumn ==
  LET columns == StoredNamed(table).columns
      k == CHOOSE i \in 1..Len(columns) :
             /\ InList(columns[i].name, LastInfo.date_columns)
             /\ \A j \in 1..(i - 1) : ~InList(columns[j].name, LastInfo.date_columns)
  IN  columns[k].name

QueriesNamed(n) == SelectSeq(suggestions, LAMBDA q : q.name = n)

C6_DateQueries ==
  JustAnalyzed =>
    IF Len(LastInfo.date_columns) > 0
      THEN /\ Len(QueriesNamed("recent_" \o table)) = 1
           /\ Len(QueriesNamed("date_range_" \o table)) = 1
           /\ QueriesNamed("recent_" \o table)[1].sql
                = "SELECT * FROM " \o table \o " ORDER BY " \o FirstDateColumn
                    \o " DESC LIMIT 10"
           /\ QueriesNamed("date_range_" \o table)[1].sql
                = "SELECT MIN(" \o FirstDateColumn \o ") as earliest, MAX("
                    \o FirstDateColumn \o ") as latest FROM " \o table
      ELSE /\ Len(QueriesNamed("recent_" \o table)) = 0
           /\ Len(QueriesNamed("date_range_" \o table)) = 0

C6_Witness ==
  /\ JustAnalyzed
  /\ Len(LastInfo.date_columns) > 1
  /\ Len(QueriesNamed("recent_" \o table)) = 1
  /\ \E c \in Elems(StoredNamed(table).columns) :
       /\ c.name = LastInfo.date_columns[1]
       /\ ~IsDateType(Upper(c.type))

(***************************************************************************)
(* C7: when get_table_schema fails for a table, analyze() still returns a  *)
(* report: the failing table is not in the report's tables and no          *)
(* suggested query reads from it, every other table is in the report with  *)
(* its classification; at every point of the loop the tables handled so   *)
(* far are in the report exactly when their introspection succeeded.       *)
(***************************************************************************)
ReadsFrom(q, name) ==
  \/ EndsWith(q.sql, " FROM " \o name)
  \/ Contains(q.sql, " FROM " \o name \o " ")

Healthy == SelectSeq(db, LAMBDA t : ~t.broken)

\* the tables the loop has gone through
Handled == IF pc = "done" THEN db ELSE SubSeq(db, 1, idx - 1)

HealthyHandled == SelectSeq(Handled, LAMBDA t : ~t.broken)

C7_PartialFailure ==
  /\ pc \in {"loop", "done"} =>
       [k \in 1..Len(analysis.tables) |-> analysis.tables[k].name]
         = [k \in 1..Len(HealthyHandled) |-> HealthyHandled[k].name]
  /\ Returned =>
       /\ \A t \in Elems(db) :
            IF t.broken
              THEN /\ t.name \notin AnalyzedNames
                   /\ \A q \in Elems(analysis.suggested_queries) : ~ReadsFrom(q, t.name)
              ELSE /\ t.name \in AnalyzedNames
                   /\ InfoOf(t.name).row_count = t.row_count
                   /\ [k \in 1..Len(t.columns) |-> t.columns[k].name]
                        = [k \in 1..Len(t.columns) |-> InfoOf(t.name).column_types[k].name]
       /\ Len(db) > 0 =>
            /\ Len(analysis.insights) > 0
            /\ StartsWith(analysis.insights[1],
                          "Database contains " \o ToString(Len(Healthy)) \o " tables ")

C7_Witness ==
  /\ Returned
  /\ \E i, j \in 1..Len(db) :
       /\ i < j
       /\ db[i].broken
       /\ ~db[j].broken
       /\ db[j].name \in AnalyzedNames
       /\ \E q \in Elems(analysis.suggested_queries) : ReadsFrom(q, db[j].name)

(***************************************************************************)
(* C8 (as written): analyze() over a database with no tables returns a     *)
(* report whose insights hold the summary line of 0 tables and 0 total     *)
(* rows, and no largest-tables or relationships insight.                   *)
(***************************************************************************)
ZeroSummary == "Database contains 0 tables with 0 total rows"

NoLargestNoRelationships ==
  \A s \in Elems(analysis.insights) :
    ~StartsWith(s, "Largest tables") /\ ~StartsWith(s, "Potential relationships")

C8_Original ==
  (Returned /\ db = <<>>) =>
    InList(ZeroSummary, analysis.insights) /\ NoLargestNoRelationships

(***************************************************************************)
(* C8 (amended): analyze() over a database with no tables returns a report *)
(* whose insights are empty: no summary line, no largest-tables and no     *)
(* relationships insight.  The summary line of 0 tables and 0 total rows,  *)
(* alone, is what the report holds when tables are listed and every one of *)
(* them fails introspection.                                               *)
(***************************************************************************)
C8_Amended ==
  /\ (Returned /\ db = <<>>) =>
       /\ analysis.insights = <<>>
       /\ analysis.tables = <<>>
       /\ analysis.suggested_queries = <<>>
  /\ (Returned /\ db # <<>> /\ analysis.tables = <<>>) =>
       analysis.insights = <<ZeroSummary>>

C8_Witness == Returned /\ db = <<>> /\ tables = <<>> /\ analysis.insights = <<>>

(***************************************************************************)
(* C9: a column whose lowercased name holds a temporal keyword and a       *)
(* disqualifying keyword, such as time_score, is not marked temporal by    *)
(* its name: it is in date_columns only if its declared type put it there, *)
(* and has_timestamps is set only if some other column's name has a        *)
(* temporal keyword and no disqualifying keyword.                          *)
(***************************************************************************)
Disqualified(name) == HasTemporalKeyword(name) /\ HasDisqualifier(name)

DatedByType(col) ==
  /\ ~IsNumericType(Upper(col.type))
  /\ ~IsTextType(Upper(col.type))
  /\ IsDateType(Upper(col.type))

C9_DisqualifierWins ==
  \A it \in Elems(analysis.tables) :
    LET columns == Elems(StoredNamed(it.name).columns)
    IN  /\ \A c \in columns :
             (Disqualified(c.name) /\ InList(c.name, it.info.date_columns))
               => DatedByType(c)
        /\ it.info.has_timestamps =>
             \E c \in columns : HasTemporalKeyword(c.name) /\ ~HasDisqualifier(c.name)

C9_Witness ==
  \E it \in Elems(analysis.tables) :
    /\ \E c \in Elems(StoredNamed(it.name).columns) : c.name = "time_score"
    /\ ~InList("time_score", it.info.date_columns)
    /\ ~it.info.has_timestamps
    /\ Len(it.info.column_types) > 1

(***************************************************************************)
(* C10: relationship inference emits no edge from a table to itself, also  *)
(* when a column's name contains the name of its own table.                *)
(***************************************************************************)
IsSelfEdge(r) ==
  \E n \in AnalyzedNames : StartsWith(r, n \o ".") /\ EndsWith(r, " -> " \o n)

C10_NoSelfEdge == \A r \in Elems(potential_relationships) : ~IsSelfEdge(r)

C10_Witness ==
  /\ Returned
  /\ Len(potential_relationships) > 0
  /\ \E it \in Elems(analysis.tables) :
       \E c \in Elems(it.info.column_types) : Contains(Lower(c.name), Lower(it.name))

(***************************************************************************)
(* Vocabulary of the rendering properties.                                 *)
(***************************************************************************)
\* the place of the first line feed of a text that holds one
RECURSIVE FirstLineFeed(_, _)
FirstLineFeed(s, i) == IF SubSeq(s, i, i) = "\n" THEN i ELSE FirstLineFeed(s, i + 1)

\* the lines of a text
RECURSIVE SplitLines(_)
SplitLines(s) ==
  IF ~Contains(s, "\n") THEN <<s>>
  ELSE LET i == FirstLineFeed(s, 1)
       IN  <<SubSeq(s, 1, i - 1)>> \o SplitLines(SubSeq(s, i + 1, Len(s)))

RenderedLines == SplitLines(rendered)

RuleLine == Repeat("=", 60)

\* the lines a batch takes: one if it is empty, else header, dashes, rows,
\* an empty line and the row count
LinesOfBatch(results) == IF Len(results) = 0 THEN 1 ELSE Len(results) + 4

\* the number of the last line of batch k, three lines of rule between batches
RECURSIVE LastLineOf(_)
LastLineOf(k) ==
  IF k = 0 THEN 0
  ELSE LastLineOf(k - 1) + (IF k > 1 THEN 3 ELSE 0) + LinesOfBatch(all_results[k])

ClosingLine(results) ==
  IF Len(results) = 0 THEN "No results returned"
  ELSE "Rows returned: " \o ToString(Len(results))

(***************************************************************************)
(* C11: the rendered text follows the order of the batches: the part of    *)
(* each batch of n > 0 rows ends with the line "Rows returned: n", an      *)
(* empty batch is the line "No results returned", and every batch but the  *)
(* first comes after a rule line.  (The values hold no line feed.)         *)
(***************************************************************************)
C11_BatchOrder ==
  rpc = "done" =>
    /\ Len(all_results) = 0 => rendered = ""
    /\ Len(all_results) > 0 => Len(RenderedLines) = LastLineOf(Len(all_results))
    /\ \A k \in 1..Len(all_results) :
         /\ RenderedLines[LastLineOf(k)] = ClosingLine(all_results[k])
         /\ k > 1 =>
              /\ RenderedLines[LastLineOf(k - 1) + 1] = ""
              /\ RenderedLines[LastLineOf(k - 1) + 2] = RuleLine
              /\ RenderedLines[LastLineOf(k - 1) + 3] = ""

C11_Witness ==
  /\ rpc = "done"
  /\ all_results = << << <<Item("a", TextValue("x")), Item("b", TextValue("1"))>> >>, <<>> >>
  /\ RenderedLines
       = << "a | b", "-----", "x | 1", "", "Rows returned: 1", "", RuleLine, "",
            "No results returned" >>

(***************************************************************************)
(* C12: in the rendering of a batch of rows the width of each column is    *)
(* min(30, max(header length, longest value among the first 20 rows)), and *)
(* every data cell of every row, the rows after the 20th too, is cut or    *)
(* padded to that width exactly, so that all data lines of the batch have  *)
(* the same length.                                                        *)
(***************************************************************************)
\* a batch of rows has just been rendered
JustRendered == batch_no >= 1 /\ Len(all_results[batch_no]) > 0

LastBatch == all_results[batch_no]

LastColumns == RowKeys(LastBatch[1])

\* the data line of row r of the batch: after the header and the dashes
DataLine(r) == output[Len(output) - (Len(LastBatch) + 3) + 2 + r]

SetMax(S) == CHOOSE m \in S : \A x \in S : x <= m

SetMin(S) == CHOOSE m \in S : \A x \in S : m <= x

WidthByRule(col) ==
  SetMin({ 30,
           SetMax({Len(col)}
                    \cup { Len(PyStr(RowGet(LastBatch[r], col))) :
                             r \in 1..SetMin({20, Len(LastBatch)}) }) })

\* where the cell of column c starts in a data line, less one
RECURSIVE CellOffset(_)
CellOffset(c) == IF c = 1 THEN 0 ELSE CellOffset(c - 1) + col_widths[c - 1] + 3

CutOrPadded(text, w) ==
  IF Len(text) >= w THEN SubSeq(text, 1, w)
  ELSE text \o Repeat(" ", w - Len(text))

C12_CellWidths ==
  JustRendered =>
    /\ Len(col_widths) = Len(LastColumns)
    /\ \A c \in 1..Len(LastColumns) : col_widths[c] = WidthByRule(LastColumns[c])
    /\ \A r \in 1..Len(LastBatch) :
         /\ Len(DataLine(r)) = CellOffset(Len(LastColumns)) + col_widths[Len(LastColumns)]
         /\ \A c \in 1..Len(LastColumns) :
              /\ SubSeq(DataLine(r), CellOffset(c) + 1, CellOffset(c) + col_widths[c])
                   = CutOrPadded(PyStr(RowGet(LastBatch[r], LastColumns[c])), col_widths[c])
              /\ c > 1 => SubSeq(DataLine(r), CellOffset(c) - 2, CellOffset(c)) = " | "
    /\ \A r1, r2 \in 1..Len(LastBatch) : Len(DataLine(r1)) = Len(DataLine(r2))

C12_Witness ==
  /\ JustRendered
  /\ Len(LastBatch) > 20
  /\ col_widths[1] < 30
  /\ Len(PyStr(RowGet(LastBatch[Len(LastBatch)], LastColumns[1]))) > col_widths[1]
  /\ Len(DataLine(Len(LastBatch))) = Len(DataLine(1))

====
